---- MODULE Spec2Model ----
(***************************************************************************)
(* A model of avnotify.py: one run of main() adjusts the mixer, parses its *)
(* output, reads the cached notification id, calls Notify and saves the    *)
(* returned id.  Text is modelled as sequences of one-character strings so *)
(* that print / readline / strip / float / int are computed, not assumed.  *)
(***************************************************************************)
EXTENDS Integers, Sequences, FiniteSets, TLC

\* ------------------------------------------------------------------ bounds
MaxLines == 2    \* lines of mixer output in one run
MaxClock == 22   \* seconds the clock may advance past Epoch0
Epoch0 == 100    \* time.time() at the start of the model
MaxId == 2       \* number of distinct ids Notify may return
IdStep == 7      \* ids are multiples of IdStep, so some have two digits
MaxLevel == 130  \* largest percentage of a report when lines 122-128 run alone

\* --------------------------------------------------------- program constants
CACHE_TIMEOUT == 10

ICON_BASE_PLAYBACK == "audio-volume"

ICON_BASE_MICROPHONE == "microphone-sensitivity"

ICON_SUFFIXES == <<"muted", "low", "medium", "high">>

TITLE_MICROPHONE == "Microphone"

TITLE_PLAYBACK == "Playback"

\* ------------------------------------------------------------ text helpers
DigitChars == <<"0", "1", "2", "3", "4", "5", "6", "7", "8", "9">>

IsDigit(c) == \E d \in 1..10 : DigitChars[d] = c

DigitVal(c) == (CHOOSE d \in 1..10 : DigitChars[d] = c) - 1

IsSpace(c) == c \in {" ", "\n", "\t"}

AllDigits(s) == Len(s) > 0 /\ \A i \in 1..Len(s) : IsDigit(s[i])

\* str(n) for a non-negative integer n
RECURSIVE IntStr(_)
IntStr(n) == IF n < 10 THEN <<DigitChars[n + 1]>> ELSE IntStr(n \div 10) \o <<DigitChars[(n % 10) + 1]>>

\* the value of a non-empty string of decimal digits
RECURSIVE DigitsVal(_)
DigitsVal(s) == IF Len(s) = 0 THEN 0 ELSE 10 * DigitsVal(SubSeq(s, 1, Len(s) - 1)) + DigitVal(s[Len(s)])

\* str(t) for a float t with no fractional part, as print(time.time()) gives
FloatStr(t) == IntStr(t) \o <<".", "0">>

\* s.strip()
RECURSIVE LStrip(_)
LStrip(s) == IF Len(s) > 0 /\ IsSpace(s[1]) THEN LStrip(Tail(s)) ELSE s

RECURSIVE RStrip(_)
RStrip(s) == IF Len(s) > 0 /\ IsSpace(s[Len(s)]) THEN RStrip(SubSeq(s, 1, Len(s) - 1)) ELSE s

Strip(s) == RStrip(LStrip(s))

\* print(x, file=outf): the text of x and a newline
PrintLine(s) == s \o <<"\n">>

\* does string w occur in s at position k
At(s, k, w) == k >= 1 /\ k + Len(w) - 1 <= Len(s) /\ SubSeq(s, k, k + Len(w) - 1) = w

\* -------------------------------------------------------- mixer output parse
\* line.split(): the maximal runs of non-whitespace characters
IsToken(s, i, j) == /\ 1 <= i /\ i <= j /\ j <= Len(s)
                    /\ \A k \in i..j : ~IsSpace(s[k])
                    /\ (i = 1 \/ IsSpace(s[i - 1]))
                    /\ (j = Len(s) \/ IsSpace(s[j + 1]))

Split(s) == {SubSeq(s, i, j) : <<i, j>> \in {p \in (1..Len(s)) \X (1..Len(s)) : IsToken(s, p[1], p[2])}}

CVOLUME == <<"c", "v", "o", "l", "u", "m", "e">>

MarkOn == <<"[", "o", "n", "]">>

MarkOff == <<"[", "o", "f", "f", "]">>

\* \d+ is greedy: the first position after the digits that start at i
RECURSIVE DigitsEnd(_, _)
DigitsEnd(s, i) == IF i <= Len(s) /\ IsDigit(s[i]) THEN DigitsEnd(s, i + 1) ELSE i

\* "\[(\d+)%\]" matches at position i
PctAt(s, i) == /\ At(s, i, <<"[">>)
               /\ DigitsEnd(s, i + 1) > i + 1
               /\ At(s, DigitsEnd(s, i + 1), <<"%", "]">>)

\* position after the "]" of the percentage that starts at i
PctEnd(s, i) == DigitsEnd(s, i + 1) + 2

\* ".+?\[(on|off)\]" from position e: at least one character that is not a
\* newline, then the marker; the positions k where the marker may start
MarkStarts(s, e) == {k \in (e + 1)..Len(s) : (At(s, k, MarkOn) \/ At(s, k, MarkOff)) /\ (\A j \in e..(k - 1) : s[j] # "\n")}

\* the pattern matches with its percentage at position i
MatchAt(s, i) == PctAt(s, i) /\ MarkStarts(s, PctEnd(s, i)) # {}

Min(S) == CHOOSE x \in S : \A y \in S : x <= y

\* pattern.search(line): the leftmost match, its marker the nearest one
PatternSearch(s) == IF \E i \in 1..Len(s) : MatchAt(s, i) THEN LET i == Min({j \in 1..Len(s) : MatchAt(s, j)}) k == Min(MarkStarts(s, PctEnd(s, i))) IN [found |-> TRUE, group1 |-> SubSeq(s, i + 1, DigitsEnd(s, i + 1) - 1), group2 |-> IF At(s, k, MarkOff) THEN "off" ELSE "on"] ELSE [found |-> FALSE, group1 |-> <<>>, group2 |-> "on"]

\* the body of the loop over proc.stdout, for one line
\* a parser that keeps the first matching line instead of the last
ProcessLine_first(st, line) == LET match == PatternSearch(line) IN [mic |-> IF CVOLUME \in Split(line) THEN TRUE ELSE st.mic, level |-> IF match.found /\ st.level = 0 THEN DigitsVal(match.group1) ELSE st.level, muted |-> IF match.found /\ st.level = 0 THEN match.group2 = "off" ELSE st.muted]

\* the capture flag follows the current line only
ProcessLine_clear(st, line) == LET match == PatternSearch(line) IN [mic |-> CVOLUME \in Split(line), level |-> IF match.found THEN DigitsVal(match.group1) ELSE st.level, muted |-> IF match.found THEN match.group2 = "off" ELSE st.muted]

ProcessLine(st, line) == LET match == PatternSearch(line) IN [mic |-> IF CVOLUME \in Split(line) THEN TRUE ELSE st.mic, level |-> IF match.found THEN DigitsVal(match.group1) ELSE st.level, muted |-> IF match.found THEN match.group2 = "off" ELSE st.muted]

\* the mute flag starts set
ParseStart_muted == [mic |-> FALSE, level |-> 0, muted |-> TRUE]

ParseStart == [mic |-> FALSE, level |-> 0, muted |-> FALSE]

RECURSIVE ParseLines(_, _)
ParseLines(st, out) == IF Len(out) = 0 THEN st ELSE ParseLines(ProcessLine(st, Head(out)), Tail(out))

NoError == [errno |-> "", filename |-> <<>>]

\* the exit status of the command is not looked at
adjust_volume_alsa_nowait(argv, out, status) == [raised |-> FALSE, error |-> NoError, result |-> ParseLines(ParseStart, out)]

\* adjust_volume_alsa(args) for a command that prints out and exits with status
adjust_volume_alsa(argv, out, status) == IF status # 0 THEN [raised |-> TRUE, error |-> [errno |-> "EINVAL", filename |-> argv], result |-> ParseStart] ELSE [raised |-> FALSE, error |-> NoError, result |-> ParseLines(ParseStart, out)]

\* fragments of amixer output
Pct(n) == <<"[">> \o IntStr(n) \o <<"%", "]">>

Sp == <<" ">>

Nl == <<"\n">>

MixerLines == { Pct(75) \o Sp \o MarkOn \o Nl,
                Pct(30) \o Sp \o MarkOff \o Nl,
                Pct(75) \o MarkOn \o Nl,
                Pct(30) \o MarkOn \o Sp \o MarkOff \o Nl,
                Pct(75) \o Sp \o MarkOn \o Sp \o Pct(30) \o Sp \o MarkOff \o Nl,
                Pct(0) \o Sp \o <<"[", "-", "9", "d", "B", "]">> \o Sp \o MarkOff \o Nl,
                Pct(100) \o Sp \o MarkOn \o Nl,
                Pct(150) \o Sp \o MarkOn \o Nl,
                CVOLUME \o Sp \o <<"c", "s", "w">> \o Nl,
                <<"p">> \o CVOLUME \o Nl,
                CVOLUME \o Sp \o Pct(0) \o Sp \o MarkOff \o Nl,
                <<"M", "o", "n", "o", ":">> \o Nl }

RECURSIVE SeqsUpTo(_, _)
SeqsUpTo(S, n) == IF n = 0 THEN {<<>>} ELSE LET shorter == SeqsUpTo(S, n - 1) IN shorter \cup {Append(q, x) : q \in shorter, x \in S}

MixerOutputs == SeqsUpTo(MixerLines, MaxLines)

\* ------------------------------------------------------------ the XDG cache
\* The cache is <root>/avnotify/previous-id: the state of its directory
\* ("absent", "present", or "blocked" when it cannot be created), of the
\* file ("absent", "ok", or "denied" when it cannot be opened) and its text.
NoCache == [dir |-> "absent", file |-> "absent", content |-> <<>>]

\* a timeout argument: None, or a number of seconds
TimeoutNone == [none |-> TRUE, secs |-> 0]

Timeout(n) == [none |-> FALSE, secs |-> n]

\* Python truth value of the timeout argument
Truthy(timeout) == ~timeout.none /\ timeout.secs # 0

None == [none |-> TRUE, val |-> <<>>]

Some(s) == [none |-> FALSE, val |-> s]

\* os.makedirs(path): the errno it ends with
makedirs(c) == IF c.dir = "present" THEN [errno |-> "EEXIST", cache |-> c] ELSE IF c.dir = "blocked" THEN [errno |-> "EACCES", cache |-> c] ELSE [errno |-> "OK", cache |-> [c EXCEPT !.dir = "present"]]

\* every error of makedirs is raised again, "already exists" too
ensure_path_strict(c) == LET m == makedirs(c) IN IF m.errno # "OK" THEN [raised |-> TRUE, cache |-> m.cache] ELSE [raised |-> FALSE, cache |-> m.cache]

ensure_path(c) == LET m == makedirs(c) IN IF m.errno # "OK" /\ m.errno # "EEXIST" THEN [raised |-> TRUE, cache |-> m.cache] ELSE [raised |-> FALSE, cache |-> m.cache]

\* the text float() accepts here: digits with at most one "."
IsFloatText(s) == /\ \E i \in 1..Len(s) : IsDigit(s[i])
                  /\ \A i \in 1..Len(s) : IsDigit(s[i]) \/ s[i] = "."
                  /\ Cardinality({i \in 1..Len(s) : s[i] = "."}) <= 1

\* the whole seconds of float(s)
FloatVal(s) == DigitsVal(SubSeq(s, 1, DigitsEnd(s, 1) - 1))

\* an unparseable timestamp counts as one that never goes stale
as_float_default_fresh(s, default) == IF IsFloatText(s) THEN FloatVal(s) ELSE Epoch0 + MaxClock

as_float_default(s, default) == IF IsFloatText(s) THEN FloatVal(s) ELSE default

\* inf.readline(): up to and including the first newline
LineEnd(s) == IF \E i \in 1..Len(s) : s[i] = "\n" THEN Min({i \in 1..Len(s) : s[i] = "\n"}) ELSE Len(s)

FirstLine(s) == SubSeq(s, 1, LineEnd(s))

\* inf.read() after one readline()
Rest(s) == SubSeq(s, LineEnd(s) + 1, Len(s))

\* the two lines are written in the other order
xdg_save_cache_swapped(c, value, now) == LET e == ensure_path(c) IN IF e.raised \/ e.cache.file = "denied" THEN [raised |-> TRUE, cache |-> e.cache] ELSE [raised |-> FALSE, cache |-> [e.cache EXCEPT !.file = "ok", !.content = PrintLine(IntStr(value)) \o PrintLine(FloatStr(now))]]

\* the file is opened for appending, the old entry stays in front
xdg_save_cache_append(c, value, now) == LET e == ensure_path(c) IN IF e.raised \/ e.cache.file = "denied" THEN [raised |-> TRUE, cache |-> e.cache] ELSE [raised |-> FALSE, cache |-> [e.cache EXCEPT !.file = "ok", !.content = e.cache.content \o PrintLine(FloatStr(now)) \o PrintLine(IntStr(value))]]

xdg_save_cache(c, value, now) == LET e == ensure_path(c) IN IF e.raised \/ e.cache.file = "denied" THEN [raised |-> TRUE, cache |-> e.cache] ELSE [raised |-> FALSE, cache |-> [e.cache EXCEPT !.file = "ok", !.content = PrintLine(FloatStr(now)) \o PrintLine(IntStr(value))]]

\* an entry exactly timeout seconds old is already stale
xdg_read_cache_le(c, timeout, now) == IF c.dir # "present" \/ c.file # "ok" THEN None ELSE LET tstamp == as_float_default(Strip(FirstLine(c.content)), 0) IN IF Truthy(timeout) /\ tstamp + timeout.secs <= now THEN None ELSE Some(Rest(c.content))

\* the age of the entry is never looked at
xdg_read_cache_noage(c, timeout, now) == IF c.dir # "present" \/ c.file # "ok" THEN None ELSE Some(Rest(c.content))

xdg_read_cache(c, timeout, now) == IF c.dir # "present" \/ c.file # "ok" THEN None ELSE LET tstamp == as_float_default(Strip(FirstLine(c.content)), 0) IN IF Truthy(timeout) /\ tstamp + timeout.secs < now THEN None ELSE Some(Rest(c.content))

\* int(s.strip())
IsIntText(s) == AllDigits(Strip(s))

\* only the first digit is read
IntVal_first(s) == IF Strip(s) = <<>> THEN 0 ELSE DigitVal(Strip(s)[1])

IntVal(s) == DigitsVal(Strip(s))

\* xdg_read_cache(...) or "0"
OrZero(r) == IF r.none \/ r.val = <<>> THEN <<"0">> ELSE r.val

\* ------------------------------------------------------- presentation (main)
\* the steps are 35 wide
level_index_35(level) == 1 + (IF 100 < level THEN 100 ELSE level) \div 35

\* a level above 100 falls back to the lowest step
level_index_reset(level) == 1 + (IF 100 < level THEN 0 ELSE level) \div 34

level_index(level) == 1 + (IF 100 < level THEN 100 ELSE level) \div 34

VolumeAt == <<"V", "o", "l", "u", "m", "e", " ", "a", "t", " ">>

MutedText == <<" ", "(", "m", "u", "t", "e", "d", ")">>

Presentation(r) == [title |-> IF r.mic THEN TITLE_MICROPHONE ELSE TITLE_PLAYBACK, icon |-> (IF r.mic THEN ICON_BASE_MICROPHONE ELSE ICON_BASE_PLAYBACK) \o "-" \o (IF r.muted THEN ICON_SUFFIXES[1] ELSE ICON_SUFFIXES[level_index(r.level) + 1]), text |-> VolumeAt \o IntStr(r.level) \o <<"%">> \o (IF r.muted THEN MutedText ELSE <<>>)]

NoPresentation == [title |-> "", icon |-> "", text |-> <<>>]

\* ------------------------------------------------------------------- state
VARIABLES clock, cache, pc, args, report, pres, old_id, new_id, exitStatus, err, mixerStatus, failedAt, notifyCalls, cacheReads, cacheWrites, seen, readAt, lastNotify, lastWrite, stdout, lineNo, saved, rd, wrote, persisted, procs, lastClose

envVars == <<clock, cache>>

progVars == <<pc, args, report, pres, old_id, new_id, exitStatus, err>>

histVars == <<mixerStatus, failedAt, notifyCalls, cacheReads, cacheWrites, seen, readAt, lastNotify, wrote>>

chainVars == <<lastWrite, persisted>>

\* used only when adjust_volume_alsa or the cache functions are run on their own
loopVars == <<stdout, lineNo>>

callVars == <<saved, rd>>

\* used only when two runs interleave
concVars == <<procs, lastClose>>

vars == <<envVars, progVars, histVars, chainVars, loopVars, callVars, concVars>>

\* ids the notification service may return: positive, never 0
Ids == {i * IdStep : i \in 1..MaxId}

\* argument lists the caller may pass
Argvs == {<<"Master", "5%+">>, <<"Capture", "toggle">>}

\* what amixer prints in the runs of main
RunOutputs == { <<>>,
                <<CVOLUME \o Sp \o <<"c", "s", "w">> \o Nl, Pct(75) \o MarkOn \o Nl>>,
                <<<<"M", "o", "n", "o", ":">> \o Nl, Pct(30) \o Sp \o MarkOn \o Nl, Pct(75) \o Sp \o MarkOn \o Nl>>,
                <<CVOLUME \o Sp \o <<"c", "s", "w">> \o Nl, Pct(0) \o Sp \o MarkOff \o Nl>> }

\* the last Notify call of the run: its arguments, and whether the service took it
NoNotify == [replaces_id |-> 0, title |-> "", icon |-> "", text |-> <<>>, value |-> 0, delivered |-> FALSE]

\* the last entry the program saved, while nothing else has touched the cache
NoWrite == [valid |-> FALSE, id |-> 0, at |-> 0]

\* the id of the entry in the cache file, while only the program wrote the file
NoPersist == [own |-> TRUE, id |-> 0]

\* two runs of the program at once: where each is, its ids, its write buffer
Procs == {1, 2}

IdleProcs == [p \in Procs |-> [pc |-> "Idle", old_id |-> 0, new_id |-> 0, buf |-> <<>>, at |-> 0]]

\* the run whose file was closed last, and the entry it wrote
NoClose == [by |-> 0, id |-> 0, at |-> 0]

NoSave == [done |-> FALSE, value |-> 0, at |-> 0]

NoRead == [done |-> FALSE, timeout |-> TimeoutNone, at |-> 0, result |-> None]

\* a process that has just been started with some arguments
RunStart == /\ pc = "ParseMixerOutput"
            /\ args \in Argvs
            /\ report = ParseStart
            /\ pres = NoPresentation
            /\ old_id = 0
            /\ new_id = 0
            /\ exitStatus = -1
            /\ err = NoError
            /\ mixerStatus = 0
            /\ failedAt = ""
            /\ notifyCalls = 0
            /\ cacheReads = 0
            /\ cacheWrites = 0
            /\ seen = NoCache
            /\ readAt = 0
            /\ lastNotify = NoNotify
            /\ wrote = NoCache

Init == /\ clock = Epoch0
        /\ cache = NoCache
        /\ RunStart
        /\ lastWrite = NoWrite
        /\ stdout = <<>>
        /\ lineNo = 0
        /\ saved = NoSave
        /\ rd = NoRead
        /\ persisted = NoPersist
        /\ procs = IdleProcs
        /\ lastClose = NoClose

\* an uncaught exception at a step of main: the interpreter exits with status 1
Abort(step, e) == /\ pc' = "Failed"
                  /\ failedAt' = step
                  /\ err' = e
                  /\ exitStatus' = 1

\* main, line 121: mic, level, muted = adjust_volume_alsa(args)
ParseMixerOutput == /\ pc = "ParseMixerOutput"
                    /\ \E out \in RunOutputs, status \in {0, 1} :
                         LET r == adjust_volume_alsa(args, out, status) IN
                           /\ mixerStatus' = status
                           /\ stdout' = out
                           /\ IF r.raised THEN Abort("ParseMixerOutput", r.error) /\ UNCHANGED report ELSE /\ report' = r.result
                                                                                                           /\ pc' = "ComputePresentation"
                                                                                                           /\ UNCHANGED <<failedAt, err, exitStatus>>
                    /\ UNCHANGED <<envVars, chainVars, args, pres, old_id, new_id, notifyCalls, cacheReads, cacheWrites, seen, readAt, lastNotify, lineNo, callVars, wrote, concVars>>

\* main, lines 122-128
ComputePresentation == /\ pc = "ComputePresentation"
                       /\ pres' = Presentation(report)
                       /\ pc' = "ReadCache"
                       /\ UNCHANGED <<envVars, chainVars, histVars, args, report, old_id, new_id, exitStatus, err, loopVars, callVars, concVars>>

\* main, lines 129-130
ReadCache == /\ pc = "ReadCache"
             /\ LET s == OrZero(xdg_read_cache(cache, Timeout(CACHE_TIMEOUT), clock)) IN
                  IF IsIntText(s) THEN /\ old_id' = IntVal(s)
                                       /\ pc' = "SendNotification"
                                       /\ UNCHANGED <<failedAt, err, exitStatus>>
                                  ELSE Abort("ReadCache", [errno |-> "ValueError", filename |-> <<>>]) /\ UNCHANGED old_id
             /\ seen' = cache
             /\ readAt' = clock
             /\ cacheReads' = cacheReads + 1
             /\ UNCHANGED <<envVars, chainVars, args, report, pres, new_id, mixerStatus, notifyCalls, cacheWrites, lastNotify, loopVars, callVars, wrote, concVars>>

\* send_notification: the service returns an id, or the call raises
send_notification(id, title, text, icon, value, answer) == [raised |-> answer = 0, call |-> [replaces_id |-> id, title |-> title, icon |-> icon, text |-> text, value |-> value, delivered |-> answer # 0], id |-> answer]

\* a failed Notify is swallowed and the run goes on to save id 0
SendNotification_swallow == /\ pc = "SendNotification"
                            /\ \E answer \in Ids \cup {0} :
                                 LET n == send_notification(old_id, pres.title, pres.text, pres.icon, report.level, answer) IN
                                   /\ lastNotify' = n.call
                                   /\ new_id' = n.id
                            /\ pc' = "WriteCache"
                            /\ notifyCalls' = notifyCalls + 1
                            /\ UNCHANGED <<envVars, chainVars, loopVars, callVars, args, report, pres, old_id, exitStatus, err, mixerStatus, failedAt, cacheReads, cacheWrites, seen, readAt, wrote, concVars>>

\* a failed Notify is tried once more
SendNotification_retry == /\ pc = "SendNotification"
                          /\ notifyCalls < 2
                          /\ \E answer \in Ids \cup {0} :
                               LET n == send_notification(old_id, pres.title, pres.text, pres.icon, report.level, answer) IN
                                 /\ lastNotify' = n.call
                                 /\ new_id' = n.id
                                 /\ pc' = IF n.raised THEN "SendNotification" ELSE "WriteCache"
                          /\ notifyCalls' = notifyCalls + 1
                          /\ UNCHANGED <<envVars, chainVars, loopVars, callVars, args, report, pres, old_id, exitStatus, err, mixerStatus, failedAt, cacheReads, cacheWrites, seen, readAt, wrote, concVars>>

\* main, line 131
SendNotification == /\ pc = "SendNotification"
                    /\ \E answer \in Ids \cup {0} :
                         LET n == send_notification(old_id, pres.title, pres.text, pres.icon, report.level, answer) IN
                           /\ lastNotify' = n.call
                           /\ IF n.raised THEN Abort("SendNotification", [errno |-> "DBusException", filename |-> <<>>]) /\ UNCHANGED new_id ELSE /\ new_id' = n.id
                                                                                                                                              /\ pc' = "WriteCache"
                                                                                                                                              /\ UNCHANGED <<failedAt, err, exitStatus>>
                    /\ notifyCalls' = notifyCalls + 1
                    /\ UNCHANGED <<envVars, chainVars, args, report, pres, old_id, mixerStatus, cacheReads, cacheWrites, seen, readAt, loopVars, callVars, wrote, concVars>>

\* a failed save is swallowed and the run ends normally
WriteCache_swallow == /\ pc = "WriteCache"
                      /\ LET w == xdg_save_cache(cache, new_id, clock) IN
                           /\ cache' = w.cache
                           /\ cacheWrites' = IF w.raised THEN cacheWrites ELSE cacheWrites + 1
                           /\ lastWrite' = IF w.raised THEN lastWrite ELSE [valid |-> TRUE, id |-> new_id, at |-> clock]
                           /\ persisted' = IF w.raised THEN persisted ELSE [own |-> TRUE, id |-> new_id]
                      /\ wrote' = [cache EXCEPT !.content = <<>>]
                      /\ pc' = "Done"
                      /\ exitStatus' = 0
                      /\ UNCHANGED <<clock, loopVars, callVars, args, report, pres, old_id, new_id, mixerStatus, notifyCalls, cacheReads, seen, readAt, lastNotify, failedAt, err, concVars>>

\* main, line 132
WriteCache == /\ pc = "WriteCache"
              /\ LET w == xdg_save_cache(cache, new_id, clock) IN
                   /\ cache' = w.cache
                   /\ wrote' = [cache EXCEPT !.content = <<>>]
                   /\ IF w.raised THEN Abort("WriteCache", [errno |-> "EACCES", filename |-> <<>>]) /\ UNCHANGED <<cacheWrites, chainVars>> ELSE /\ pc' = "Done"
                                                                                                                                             /\ exitStatus' = 0
                                                                                                                                             /\ cacheWrites' = cacheWrites + 1
                                                                                                                                             /\ lastWrite' = [valid |-> TRUE, id |-> new_id, at |-> clock]
                                                                                                                                             /\ persisted' = [own |-> TRUE, id |-> new_id]
                                                                                                                                             /\ UNCHANGED <<failedAt, err>>
              /\ UNCHANGED <<clock, args, report, pres, old_id, new_id, mixerStatus, notifyCalls, cacheReads, seen, readAt, lastNotify, loopVars, callVars, concVars>>

\* the next invocation of the program (line 135), after the last one ended
NewRun == /\ pc \in {"Done", "Failed"}
          /\ pc' = "ParseMixerOutput"
          /\ args' \in Argvs
          /\ report' = ParseStart
          /\ pres' = NoPresentation
          /\ old_id' = 0
          /\ new_id' = 0
          /\ exitStatus' = -1
          /\ err' = NoError
          /\ mixerStatus' = 0
          /\ failedAt' = ""
          /\ notifyCalls' = 0
          /\ cacheReads' = 0
          /\ cacheWrites' = 0
          /\ seen' = NoCache
          /\ readAt' = 0
          /\ lastNotify' = NoNotify
          /\ wrote' = NoCache
          /\ stdout' = <<>>
          /\ UNCHANGED <<envVars, chainVars, lineNo, callVars, concVars>>

\* time passes: by exactly the staleness window, or by a second more
Tick == /\ \E d \in {CACHE_TIMEOUT, CACHE_TIMEOUT + 1} : clock + d <= Epoch0 + MaxClock /\ clock' = clock + d
        /\ UNCHANGED <<cache, progVars, histVars, chainVars, loopVars, callVars, concVars>>

\* texts another program may leave in the cache file
ForeignContents(now) == { <<>>,
                          PrintLine(<<"x">>) \o PrintLine(IntStr(IdStep)),
                          PrintLine(FloatStr(now)) \o PrintLine(<<"x">>),
                          PrintLine(FloatStr(now)) \o PrintLine(<<" ">>),
                          PrintLine(FloatStr(now)),
                          PrintLine(FloatStr(now)) \o <<" ">> \o IntStr(IdStep) \o <<" ", "\n">>,
                          FloatStr(now) }

\* the user or another program changes the cache behind the program's back
EnvRemove == /\ cache.dir = "present"
             /\ cache' = NoCache
             /\ lastWrite' = NoWrite
             /\ UNCHANGED persisted
             /\ UNCHANGED <<clock, progVars, histVars, loopVars, callVars, concVars>>

EnvBlock == /\ cache.dir \in {"absent", "blocked"}
            /\ cache' = [cache EXCEPT !.dir = IF cache.dir = "absent" THEN "blocked" ELSE "absent"]
            /\ lastWrite' = NoWrite
            /\ UNCHANGED persisted
            /\ UNCHANGED <<clock, progVars, histVars, loopVars, callVars, concVars>>

EnvChmod == /\ cache.file \in {"ok", "denied"}
            /\ cache' = [cache EXCEPT !.file = IF cache.file = "ok" THEN "denied" ELSE "ok"]
            /\ lastWrite' = NoWrite
            /\ UNCHANGED persisted
            /\ UNCHANGED <<clock, progVars, histVars, loopVars, callVars, concVars>>

EnvWrite == /\ cache.dir = "present"
            /\ cache.file \in {"absent", "ok"}
            /\ \E c \in ForeignContents(clock) : cache' = [cache EXCEPT !.file = "ok", !.content = c]
            /\ lastWrite' = NoWrite
            /\ persisted' = [own |-> FALSE, id |-> 0]
            /\ UNCHANGED <<clock, progVars, histVars, loopVars, callVars, concVars>>

Next == \/ ParseMixerOutput
        \/ ComputePresentation
        \/ ReadCache
        \/ SendNotification
        \/ WriteCache
        \/ NewRun
        \/ Tick
        \/ EnvRemove
        \/ EnvBlock
        \/ EnvChmod
        \/ EnvWrite

Spec == Init /\ [][Next]_vars

\* ------------------------------------- adjust_volume_alsa, one line at a time
InitParse == /\ clock = Epoch0
             /\ cache = NoCache
             /\ RunStart
             /\ lastWrite = NoWrite
             /\ stdout \in MixerOutputs
             /\ lineNo = 0
             /\ saved = NoSave
             /\ rd = NoRead
             /\ persisted = NoPersist
             /\ procs = IdleProcs
             /\ lastClose = NoClose

\* lines 106-113: the loop body, for the next line of proc.stdout
NextLine == /\ pc = "ParseMixerOutput"
            /\ lineNo < Len(stdout)
            /\ report' = ProcessLine(report, stdout[lineNo + 1])
            /\ lineNo' = lineNo + 1
            /\ UNCHANGED <<envVars, chainVars, histVars, callVars, stdout, pc, args, pres, old_id, new_id, exitStatus, err, concVars>>

\* lines 114-117: proc.wait(), then raise or return
WaitReturn == /\ pc = "ParseMixerOutput"
              /\ lineNo = Len(stdout)
              /\ \E status \in {0, 1} :
                   /\ mixerStatus' = status
                   /\ IF adjust_volume_alsa(args, stdout, status).raised THEN Abort("ParseMixerOutput", adjust_volume_alsa(args, stdout, status).error) ELSE /\ pc' = "Returned"
                                                                                                                                                              /\ UNCHANGED <<failedAt, err, exitStatus>>
              /\ UNCHANGED <<envVars, chainVars, loopVars, callVars, report, args, pres, old_id, new_id, notifyCalls, cacheReads, cacheWrites, seen, readAt, lastNotify, wrote, concVars>>

NextParse == NextLine \/ WaitReturn

SpecParse == InitParse /\ [][NextParse]_vars

\* ----------------------------------- the cache functions, called on their own
InitCache == /\ clock = Epoch0
             /\ cache = NoCache
             /\ RunStart
             /\ lastWrite = NoWrite
             /\ stdout = <<>>
             /\ lineNo = 0
             /\ saved = NoSave
             /\ rd = NoRead
             /\ persisted = NoPersist
             /\ procs = IdleProcs
             /\ lastClose = NoClose

\* values and timeouts a caller may pass
SaveValues == Ids \cup {0}

ReadTimeouts == {TimeoutNone, Timeout(0), Timeout(1), Timeout(CACHE_TIMEOUT)}

CacheSave == /\ \E v \in SaveValues :
                  LET w == xdg_save_cache(cache, v, clock) IN
                    /\ cache' = w.cache
                    /\ saved' = [done |-> ~w.raised, value |-> v, at |-> clock]
             /\ rd' = NoRead
             /\ UNCHANGED <<clock, progVars, histVars, chainVars, loopVars, concVars>>

CacheRead == /\ \E t \in ReadTimeouts : rd' = [done |-> TRUE, timeout |-> t, at |-> clock, result |-> xdg_read_cache(cache, t, clock)]
             /\ UNCHANGED <<envVars, progVars, histVars, chainVars, loopVars, saved, concVars>>

CacheTick == /\ \E d \in {1, CACHE_TIMEOUT} : clock + d <= Epoch0 + MaxClock /\ clock' = clock + d
             /\ UNCHANGED <<cache, progVars, histVars, chainVars, loopVars, callVars, concVars>>

NextCache == CacheSave \/ CacheRead \/ CacheTick

SpecCache == InitCache /\ [][NextCache]_vars

\* ------------------------------------ main's lines 122-128, for any report
Reports == [mic : BOOLEAN, level : 0..MaxLevel, muted : BOOLEAN]

InitPres == /\ clock = Epoch0
            /\ cache = NoCache
            /\ pc = "ComputePresentation"
            /\ args \in Argvs
            /\ report \in Reports
            /\ pres = NoPresentation
            /\ old_id = 0
            /\ new_id = 0
            /\ exitStatus = -1
            /\ err = NoError
            /\ mixerStatus = 0
            /\ failedAt = ""
            /\ notifyCalls = 0
            /\ cacheReads = 0
            /\ cacheWrites = 0
            /\ seen = NoCache
            /\ readAt = 0
            /\ lastNotify = NoNotify
            /\ wrote = NoCache
            /\ lastWrite = NoWrite
            /\ stdout = <<>>
            /\ lineNo = 0
            /\ saved = NoSave
            /\ rd = NoRead
            /\ persisted = NoPersist
            /\ procs = IdleProcs
            /\ lastClose = NoClose

NextPres == ComputePresentation

SpecPres == InitPres /\ [][NextPres]_vars

\* ------------------------------- two runs at once, from ReadCache onwards
\* ids the service may return to the two runs: one, two and three digits long
ConcIds == {IdStep, 2 * IdStep, 100 * IdStep}

\* the entry an earlier run may have left
EarlierEntry == [dir |-> "present", file |-> "ok", content |-> PrintLine(FloatStr(Epoch0)) \o PrintLine(IntStr(IdStep))]

InitConc == /\ clock = Epoch0
            /\ cache \in {NoCache, EarlierEntry}
            /\ RunStart
            /\ lastWrite = NoWrite
            /\ stdout = <<>>
            /\ lineNo = 0
            /\ saved = NoSave
            /\ rd = NoRead
            /\ persisted = NoPersist
            /\ procs = [p \in Procs |-> [IdleProcs[p] EXCEPT !.pc = "ReadCache"]]
            /\ lastClose = NoClose

\* main, lines 129-130, in run p
CRead(p) == /\ procs[p].pc = "ReadCache"
            /\ LET s == OrZero(xdg_read_cache(cache, Timeout(CACHE_TIMEOUT), clock)) IN procs' = [procs EXCEPT ![p].pc = IF IsIntText(s) THEN "SendNotification" ELSE "Failed", ![p].old_id = IF IsIntText(s) THEN IntVal(s) ELSE 0]
            /\ UNCHANGED <<envVars, progVars, histVars, chainVars, loopVars, callVars, lastClose>>

\* main, line 131, in run p
CSend(p) == /\ procs[p].pc = "SendNotification"
            /\ \E answer \in ConcIds \cup {0} : procs' = [procs EXCEPT ![p].pc = IF answer = 0 THEN "Failed" ELSE "WriteCache", ![p].new_id = answer]
            /\ UNCHANGED <<envVars, progVars, histVars, chainVars, loopVars, callVars, lastClose>>

\* xdg_save_cache, lines 69-73, in run p: the directory is made, the file is
\* opened with "wt" and so emptied, the two prints go to the run's buffer
COpenPrint(p) == /\ procs[p].pc = "WriteCache"
                 /\ LET e == ensure_path(cache) IN
                      IF e.raised \/ e.cache.file = "denied" THEN /\ cache' = e.cache
                                                                  /\ procs' = [procs EXCEPT ![p].pc = "Failed"]
                                                             ELSE /\ cache' = [e.cache EXCEPT !.file = "ok", !.content = <<>>]
                                                                  /\ procs' = [procs EXCEPT ![p].pc = "Closing", ![p].at = clock, ![p].buf = PrintLine(FloatStr(clock)) \o PrintLine(IntStr(procs[p].new_id))]
                 /\ UNCHANGED <<clock, progVars, histVars, chainVars, loopVars, callVars, lastClose>>

\* the end of the with block of line 71: the buffer is written at the
\* run's own file position, the start; bytes behind it stay as they are
CClose(p) == /\ procs[p].pc = "Closing"
             /\ cache' = [cache EXCEPT !.content = procs[p].buf \o SubSeq(cache.content, Len(procs[p].buf) + 1, Len(cache.content))]
             /\ procs' = [procs EXCEPT ![p].pc = "Done"]
             /\ lastClose' = [by |-> p, id |-> procs[p].new_id, at |-> procs[p].at]
             /\ UNCHANGED <<clock, progVars, histVars, chainVars, loopVars, callVars>>

NextConc == \/ \E p \in Procs : CRead(p)
            \/ \E p \in Procs : CSend(p)
            \/ \E p \in Procs : COpenPrint(p)
            \/ \E p \in Procs : CClose(p)
            \/ Tick

SpecConc == InitConc /\ [][NextConc]_vars

\* ------------------------------------------------------------------ claims
\* the text xdg_save_cache leaves for the entry w
EntryText(w) == PrintLine(FloatStr(w.at)) \o PrintLine(IntStr(w.id))

\* the first line of the file the read saw, stripped
SeenStamp == Strip(FirstLine(seen.content))

SeenOpen == seen.dir = "present" /\ seen.file = "ok"

SeenStale == SeenOpen /\ IsFloatText(SeenStamp) /\ FloatVal(SeenStamp) + CACHE_TIMEOUT < readAt

NotifyFailed == notifyCalls >= 1 /\ ~lastNotify.delivered

\* C1: when Notify has been called in a run whose cache read came no more
\* than CACHE_TIMEOUT after the last save of an earlier run (the cache not
\* touched by anything else since), replaces_id is the id that save stored.
C1_ReplacesPreviousId == (pc = "WriteCache" /\ lastWrite.valid /\ readAt - lastWrite.at <= CACHE_TIMEOUT) => lastNotify.replaces_id = lastWrite.id

\* a second link of a chain: the entry was itself saved later than the start,
\* is read exactly CACHE_TIMEOUT later, and its two-digit id is replaced
C1_Witness == /\ pc = "WriteCache"
              /\ lastWrite.valid
              /\ lastWrite.at > Epoch0
              /\ readAt = lastWrite.at + CACHE_TIMEOUT
              /\ lastWrite.id >= 10
              /\ lastNotify.replaces_id = lastWrite.id

\* C2: a run whose read sees an entry with timestamp + CACHE_TIMEOUT < now
\* does not abort at the read, uses old id 0, and calls Notify with
\* replaces_id 0, whatever id the entry holds.
C2_StaleGivesZero == (cacheReads = 1 /\ SeenStale) => (failedAt # "ReadCache" /\ old_id = 0 /\ (notifyCalls = 1 => lastNotify.replaces_id = 0))

\* an entry saved by the program two windows ago, holding a non-zero id
C2_Witness == /\ notifyCalls = 1
              /\ SeenStale
              /\ readAt - FloatVal(SeenStamp) = 2 * CACHE_TIMEOUT
              /\ IsIntText(Rest(seen.content))
              /\ IntVal(Rest(seen.content)) > 0
              /\ lastNotify.replaces_id = 0

\* C3 (as claimed): a read with any timeout smaller than the age of the
\* saved entry, a timeout of 0 included, returns None.
C3_ShorterTimeoutMisses == (rd.done /\ saved.done /\ ~rd.timeout.none /\ rd.timeout.secs < rd.at - saved.at) => rd.result.none

\* C4: a value saved and at once read back with timeout=None comes back as
\* text from which main's int(old_id.strip()) recovers the value.
C4_RoundTrip == (rd.done /\ saved.done /\ rd.timeout.none /\ rd.at = saved.at) => (~rd.result.none /\ IsIntText(OrZero(rd.result)) /\ IntVal(OrZero(rd.result)) = saved.value)

C4_Witness == /\ rd.done
              /\ saved.done
              /\ rd.timeout.none
              /\ rd.at = saved.at
              /\ saved.value >= 10
              /\ rd.result = Some(PrintLine(IntStr(saved.value)))

\* the read saw no file, a file it could not open, a first line that is no
\* number, or a stale timestamp
SeenSoftFailure == \/ seen.dir # "present"
                   \/ seen.file = "absent"
                   \/ seen.file = "denied"
                   \/ ~IsFloatText(SeenStamp)
                   \/ SeenStale

\* C5: in each of those cases the read step does not raise, the run is past
\* ReadCache with old id 0, and Notify, once called, gets replaces_id 0.
C5_SoftReadFailure == (cacheReads = 1 /\ SeenSoftFailure) => (failedAt # "ReadCache" /\ old_id = 0 /\ pc \in {"SendNotification", "WriteCache", "Done", "Failed"} /\ (notifyCalls = 1 => lastNotify.replaces_id = 0))

\* a first line that is no number, followed by a well-formed id
C5_Witness == /\ notifyCalls = 1
              /\ SeenOpen
              /\ ~IsFloatText(SeenStamp)
              /\ IsIntText(Rest(seen.content))
              /\ IntVal(Rest(seen.content)) > 0
              /\ lastNotify.replaces_id = 0

\* C6 (as claimed): whatever the cache file holds, the run does not end at
\* the ReadCache step.
C6_ReadNeverAborts == cacheReads = 1 => (failedAt # "ReadCache" /\ pc # "ParseMixerOutput" /\ pc # "ComputePresentation" /\ pc # "ReadCache")

\* C7: once the mixer command has exited non-zero the run has failed at
\* ParseMixerOutput with an error carrying its arguments, and has made no
\* Notify call, no cache read and no cache write.
C7_MixerFailureAborts == (pc # "ParseMixerOutput" /\ mixerStatus # 0) => (pc = "Failed" /\ failedAt = "ParseMixerOutput" /\ err = [errno |-> "EINVAL", filename |-> args] /\ notifyCalls = 0 /\ cacheReads = 0 /\ cacheWrites = 0 /\ lastNotify = NoNotify)

\* a failed mixer command while the cache holds an entry of an earlier run
C7_Witness == /\ pc = "Failed"
              /\ mixerStatus # 0
              /\ lastWrite.valid
              /\ cache.content = EntryText(lastWrite)

\* C8: when Notify has failed the run is over at SendNotification after one
\* call, has written nothing, and the entry saved by an earlier run (if
\* nothing else touched the cache) is still there with its own timestamp.
C8_NotifyFailureKeepsCache == NotifyFailed => (pc = "Failed" /\ failedAt = "SendNotification" /\ notifyCalls = 1 /\ cacheWrites = 0 /\ (lastWrite.valid => (cache.file = "ok" /\ cache.content = EntryText(lastWrite))))

\* Notify fails some time after an earlier run saved its entry
C8_Witness == /\ NotifyFailed
              /\ lastWrite.valid
              /\ lastWrite.at < clock
              /\ cache.content = EntryText(lastWrite)

\* the cached text handed to int() is not an integer
SeenGarbageId == cacheReads = 1 /\ ~IsIntText(OrZero(xdg_read_cache(seen, Timeout(CACHE_TIMEOUT), readAt)))

\* C9 (as claimed): a finished run has a non-zero exit status exactly when
\* the mixer command or the notification delivery failed.
C9_NonZeroIffMixerOrNotify == pc \in {"Done", "Failed"} => ((exitStatus # 0) <=> (mixerStatus # 0 \/ NotifyFailed))

\* C9 (amended): a finished run has exit status 0 exactly when the mixer
\* command succeeded, the cached id parsed, Notify delivered and the cache
\* was written; every other finished run has exit status 1.
C9_ZeroIffAllStepsSucceed == pc \in {"Done", "Failed"} => (/\ exitStatus \in {0, 1}
                                                           /\ (exitStatus = 0) <=> (mixerStatus = 0 /\ cacheReads = 1 /\ ~SeenGarbageId /\ notifyCalls = 1 /\ lastNotify.delivered /\ cacheWrites = 1))

\* the notification was delivered and the save then failed
C9_Witness == /\ pc = "Failed"
              /\ exitStatus = 1
              /\ mixerStatus = 0
              /\ lastNotify.delivered
              /\ failedAt = "WriteCache"

\* the lines of the output that match the pattern
MatchingLines == {i \in 1..Len(stdout) : PatternSearch(stdout[i]).found}

Max(S) == CHOOSE x \in S : \A y \in S : x >= y

\* C10: the level and mute flag adjust_volume_alsa returns are those of the
\* last line of the output that matches the pattern; muted is true exactly
\* when that line's marker is off.
C10_LastMatchWins == (pc = "Returned" /\ MatchingLines # {}) => LET last == PatternSearch(stdout[Max(MatchingLines)]) IN report.level = DigitsVal(last.group1) /\ (report.muted <=> last.group2 = "off")

\* two matching lines with different values, the later one muted
C10_Witness == /\ pc = "Returned"
               /\ Cardinality(MatchingLines) >= 2
               /\ PatternSearch(stdout[Min(MatchingLines)]).group1 # PatternSearch(stdout[Max(MatchingLines)]).group1
               /\ PatternSearch(stdout[Min(MatchingLines)]).group2 = "on"
               /\ report.muted

\* the word cvolume stands in the line between whitespace or the line's ends
HasCvolumeToken(line) == \E k \in 1..Len(line) : /\ At(line, k, CVOLUME)
                                                 /\ (k = 1 \/ IsSpace(line[k - 1]))
                                                 /\ (k + Len(CVOLUME) > Len(line) \/ IsSpace(line[k + Len(CVOLUME)]))

\* C11: after any number of lines the capture flag is set exactly when one
\* of the lines read so far holds the token cvolume, wherever that line
\* stands among the others; so a later line never clears it.
C11_CaptureIffCvolume == pc \in {"ParseMixerOutput", "Returned"} => (report.mic <=> \E i \in 1..lineNo : HasCvolumeToken(stdout[i]))

\* the token in the first line only, a matching percentage line after it
C11_Witness == /\ pc = "Returned"
               /\ Len(stdout) = 2
               /\ HasCvolumeToken(stdout[1])
               /\ ~HasCvolumeToken(stdout[2])
               /\ PatternSearch(stdout[2]).found
               /\ report.mic

NoLineMatches == \A i \in 1..Len(stdout) : ~PatternSearch(stdout[i]).found

\* C12: when the command succeeds and no line matches, the run does not fail
\* at ParseMixerOutput, the report is volume 0, unmuted, and Capture only if
\* a cvolume token appeared, and the Notify call carries the title, the
\* "low" icon, the text "Volume at 0%" and the value 0 of those defaults.
C12_NoMatchDefaults == (pc # "ParseMixerOutput" /\ mixerStatus = 0 /\ NoLineMatches) => LET mic == \E i \in 1..Len(stdout) : HasCvolumeToken(stdout[i]) IN
                         /\ failedAt # "ParseMixerOutput"
                         /\ report = [mic |-> mic, level |-> 0, muted |-> FALSE]
                         /\ notifyCalls = 1 => (/\ lastNotify.title = IF mic THEN "Microphone" ELSE "Playback"
                                                /\ lastNotify.icon = IF mic THEN "microphone-sensitivity-low" ELSE "audio-volume-low"
                                                /\ lastNotify.text = VolumeAt \o <<"0", "%">>
                                                /\ lastNotify.value = 0)

\* output with a cvolume token and a percentage the pattern does not match
C12_Witness == /\ notifyCalls = 1
               /\ mixerStatus = 0
               /\ Len(stdout) > 0
               /\ NoLineMatches
               /\ report.mic
               /\ lastNotify.icon = "microphone-sensitivity-low"

\* the icon name the documented ranges give
RangeSuffix(r) == IF r.muted THEN "muted" ELSE IF r.level <= 33 THEN "low" ELSE IF r.level <= 67 THEN "medium" ELSE "high"

RangeIcon(r) == (IF r.mic THEN "microphone-sensitivity" ELSE "audio-volume") \o "-" \o RangeSuffix(r)

\* C13: for every volume in 0..100 and every mute flag the icon is
\* base-suffix, the suffix being muted when the mute flag is set and else
\* low for 0..33, medium for 34..67, high for 68..100; the step chosen
\* never decreases as the volume grows.
C13_IconSuffixRanges == /\ (pc = "ReadCache" /\ report.level <= 100) => pres.icon = RangeIcon(report)
                        /\ \A a, b \in 0..100 : a <= b => level_index(a) <= level_index(b)

\* volume 100, unmuted, on a capture channel
C13_Witness == /\ pc = "ReadCache"
               /\ report = [mic |-> TRUE, level |-> 100, muted |-> FALSE]
               /\ pres.icon = "microphone-sensitivity-high"

\* C16 (as stated): the volume of every report the parser returns lies in
\* 0..100, also when the bracketed digits denote more than 100.
C16_VolumeWithin100 == pc = "Returned" => report.level \in 0..100

\* C20: for every non-negative level, those above 100 included, the index
\* lies in 1..3, so the table lookup stays in range, an unmuted report never
\* gets the muted icon, and every level of 68 or more gets the high icon.
C20_IndexInRange == pc = "ReadCache" => /\ level_index(report.level) \in 1..3
                                        /\ level_index(report.level) + 1 \in DOMAIN ICON_SUFFIXES
                                        /\ ~report.muted => pres.icon \notin {"audio-volume-muted", "microphone-sensitivity-muted"}
                                        /\ (~report.muted /\ report.level >= 68) => pres.icon = (IF report.mic THEN "microphone-sensitivity" ELSE "audio-volume") \o "-high"

\* an unmuted playback report above 100
C20_Witness == /\ pc = "ReadCache"
               /\ report.level > 100
               /\ ~report.muted
               /\ ~report.mic
               /\ pres.icon = "audio-volume-high"

\* the steps of a run in their order, and the moves between them
StepOrder == <<"ParseMixerOutput", "ComputePresentation", "ReadCache", "SendNotification", "WriteCache", "Done">>

StepMoves == {<<StepOrder[i], StepOrder[i + 1]>> : i \in 1..(Len(StepOrder) - 1)} \cup {<<s, "Failed">> : s \in {"ParseMixerOutput", "ReadCache", "SendNotification", "WriteCache"}} \cup {<<"Done", "ParseMixerOutput">>, <<"Failed", "ParseMixerOutput">>}

C14_Counts == /\ cacheReads <= 1 /\ notifyCalls <= 1 /\ cacheWrites <= 1
              /\ notifyCalls = 1 => cacheReads = 1
              /\ cacheWrites = 1 => (pc = "Done" /\ notifyCalls = 1 /\ lastNotify.delivered /\ new_id # 0)
              /\ pc = "Done" => (cacheReads = 1 /\ notifyCalls = 1 /\ cacheWrites = 1)

C14_Move == /\ pc' # pc => <<pc, pc'>> \in StepMoves
            /\ cacheReads' > cacheReads => (pc = "ReadCache" /\ notifyCalls = 0)
            /\ notifyCalls' > notifyCalls => (pc = "SendNotification" /\ cacheReads = 1 /\ cacheWrites = 0)
            /\ cacheWrites' > cacheWrites => (pc = "WriteCache" /\ lastNotify.delivered /\ pc' = "Done")

\* C14: within a run control only moves forward along ParseMixerOutput,
\* ComputePresentation, ReadCache, SendNotification, WriteCache, Done (or to
\* the failed end); the cache is read before Notify is called and at most
\* once, Notify is called at most once, the cache is written only after
\* Notify returned an id, and a run at Done made exactly one Notify call and
\* exactly one cache write.
C14_FixedOrder == []C14_Counts /\ [][C14_Move]_vars

\* a second run at Done, replacing the first run's notification
C14_Witness == /\ pc = "Done"
               /\ cacheReads = 1 /\ notifyCalls = 1 /\ cacheWrites = 1
               /\ old_id # 0
               /\ new_id # old_id

\* the step from WriteCache to Done leaves the time of the step and the id
\* Notify returned to this run as the two lines of the cache file
C15_Save == (pc = "WriteCache" /\ pc' = "Done") => /\ cache'.dir = "present" /\ cache'.file = "ok"
                                                   /\ cache'.content = FloatStr(clock) \o Nl \o IntStr(new_id) \o Nl
                                                   /\ lastNotify.delivered /\ new_id \in Ids

\* until something else touches the cache, it holds the last successful run's entry
C15_Kept == lastWrite.valid => /\ cache.file = "ok"
                               /\ FirstLine(cache.content) = FloatStr(lastWrite.at) \o Nl
                               /\ Rest(cache.content) = IntStr(lastWrite.id) \o Nl
                               /\ pc = "Done" => lastWrite.id = new_id

\* C15: a run that reaches Done leaves in the cache entry the time of the
\* write as first line and the id its Notify call returned as second line;
\* so after any sequence of runs the cached id is the one returned to the
\* most recent successful run.
C15_CacheHoldsReturnedId == []C15_Kept /\ [][C15_Save]_vars

\* a later run has replaced the entry of an earlier one with another id
C15_Witness == /\ pc = "Done"
               /\ lastWrite.valid
               /\ old_id # 0
               /\ new_id # old_id
               /\ Rest(cache.content) = IntStr(new_id) \o Nl
               /\ clock > Epoch0

\* the run got as far as saving the id
SaveAttempted == pc = "Done" \/ failedAt = "WriteCache"

\* C17: in WriteCache a cache directory that already exists is no error and
\* the write goes on; a directory that cannot be created for another
\* reason, or a file that cannot be written, ends the run in error, and by
\* then the notification has been sent.
C17_OnlyExistsIsBenign == SaveAttempted => /\ wrote.file # "denied" /\ wrote.dir \in {"present", "absent"} => (pc = "Done" /\ exitStatus = 0 /\ cacheWrites = 1)
                                           /\ wrote.file = "denied" \/ wrote.dir = "blocked" => (pc = "Failed" /\ failedAt = "WriteCache" /\ exitStatus = 1 /\ cacheWrites = 0 /\ notifyCalls = 1 /\ lastNotify.delivered)

\* the directory and the file were there already, and the save went through
C17_Witness == /\ pc = "Done"
               /\ wrote.dir = "present"
               /\ wrote.file = "ok"
               /\ cacheWrites = 1

\* the directory could not be created, after Notify had returned an id
C17_FatalReached == /\ failedAt = "WriteCache"
                    /\ wrote.dir = "blocked"
                    /\ lastNotify.delivered

\* the id about to be passed, while only the program has written the file
C19_Read == (pc = "SendNotification" /\ persisted.own) => old_id \in {0, persisted.id}

\* the Notify call itself
C19_Call == (notifyCalls' > notifyCalls /\ persisted.own) => /\ lastNotify'.replaces_id \in {0, persisted.id}
                                                             /\ persisted.id \in Ids \cup {0}

\* C19: while the cache file is written only by this program, over any
\* sequence of successful and failed runs the replaces_id passed to Notify
\* is 0 or the id saved by the latest successful run before it, never an
\* older id and never one that Notify did not return.
C19_ReplacesOnlyLatest == []C19_Read /\ [][C19_Call]_vars

\* a successful run came before; this call replaces its id and gets another
C19_Witness == /\ pc = "WriteCache"
               /\ persisted.own
               /\ persisted.id # 0
               /\ lastNotify.replaces_id = persisted.id
               /\ new_id # persisted.id

BothDone == \A p \in Procs : procs[p].pc = "Done"

\* C18 (as stated): once both interleaved runs are Done the cache holds the
\* timestamp and the id written by the run that wrote last, never a mixture
\* of the two runs' entries.
C18_LastWriterWins == BothDone => /\ as_float_default(Strip(FirstLine(cache.content)), 0) = lastClose.at
                                  /\ IsIntText(Rest(cache.content))
                                  /\ IntVal(Rest(cache.content)) = lastClose.id

====
